---- MODULE Spec2Model ----
(***************************************************************************)
(* Voltix (src/main.py): battery reading acquisition, time formatting and  *)
(* the fixed-geometry ASCII gauge.                                         *)
(*                                                                         *)
(* Python values are represented as follows.                               *)
(*   - a str is a sequence of characters; a character is a one-character   *)
(*     string, the box-drawing glyphs being written by their code point;   *)
(*   - an optional value is a sequence of length at most one: None is <<>> *)
(*     and the value x is <<x>>;                                           *)
(*   - the info dict is a record of three optional entries, an entry being *)
(*     <<>> when the key is missing and <<v>> when the key maps to v.      *)
(***************************************************************************)
EXTENDS Integers, Sequences, FiniteSets, TLC

VARIABLES
    pc,        \* "idle", "returned" (a direct call has returned), or the
               \* position of show: "psutil", "sys", "merge", "done"
    args,      \* show's options: [level, status, secsleft], each optional
    base,      \* the reading the source chain produced
    info,      \* the info dict after the overrides
    psCalls,   \* calls of get_psutil_battery in this run
    sysCalls,  \* calls of get_sys_battery in this run
    psRet,     \* what get_psutil_battery returned in this run
    ret        \* the last completed call: its function, arguments and result

vars == <<pc, args, base, info, psCalls, sysCalls, psRet, ret>>

(***************************************************************************)
(* Bounds of the model                                                     *)
(***************************************************************************)
\* format_time is exercised on h*3600 + m*60 + s for h in 0..MaxHours
MaxHours == 49
\* negative seconds -MaxNegSecs..-1
MaxNegSecs == 2
\* render_battery is exercised on percent in -PercentSlack..100+PercentSlack
PercentSlack == 30
\* the power-supply tree holds at most MaxDevices device directories
MaxDevices == 2

(***************************************************************************)
(* Optional values                                                         *)
(***************************************************************************)
None == <<>>
Some(x) == <<x>>

(***************************************************************************)
(* str primitives                                                          *)
(***************************************************************************)
Upper == <<"A","B","C","D","E","F","G","H","I","J","K","L","M",
           "N","O","P","Q","R","S","T","U","V","W","X","Y","Z">>
Lower == <<"a","b","c","d","e","f","g","h","i","j","k","l","m",
           "n","o","p","q","r","s","t","u","v","w","x","y","z">>
Digits == <<"0","1","2","3","4","5","6","7","8","9">>

\* str.lower() on one character
lower_char(c) ==
    IF \E i \in 1..Len(Upper) : Upper[i] = c
    THEN Lower[CHOOSE i \in 1..Len(Upper) : Upper[i] = c]
    ELSE c

\* str.lower()
lower(s) == [i \in 1..Len(s) |-> lower_char(s[i])]

\* str.startswith(prefix)
startswith(s, prefix) ==
    /\ Len(s) >= Len(prefix)
    /\ \A i \in 1..Len(prefix) : s[i] = prefix[i]

\* c * n for a one-character str c (the empty str when n <= 0)
Rep(c, n) == [i \in 1..(IF n > 0 THEN n ELSE 0) |-> c]

\* "%d" % n
RECURSIVE NatToStr(_)
NatToStr(n) ==
    IF n < 10 THEN <<Digits[n + 1]>>
    ELSE NatToStr(n \div 10) \o <<Digits[(n % 10) + 1]>>

IntToStr(n) == IF n < 0 THEN <<"-">> \o NatToStr(0 - n) ELSE NatToStr(n)

\* "%02d" % n, for n >= 0
Pad2(n) == IF n < 10 THEN <<"0">> \o NatToStr(n) ELSE NatToStr(n)

\* s.split(sep)[0] for a one-character sep: the part before the first sep
SplitFirst(s, sep) ==
    IF \E i \in 1..Len(s) : s[i] = sep
    THEN SubSeq(s, 1, (CHOOSE i \in 1..Len(s) :
                          /\ s[i] = sep
                          /\ \A j \in 1..(i - 1) : s[j] # sep) - 1)
    ELSE s

(***************************************************************************)
(* Literals of the source                                                  *)
(***************************************************************************)
S_charg == <<"c","h","a","r","g">>
S_ChargingDots == <<"C","h","a","r","g","i","n","g",".",".",".">>
S_Unknown == <<"U","n","k","n","o","w","n">>
S_Charging == <<"C","h","a","r","g","i","n","g">>
S_Discharging == <<"D","i","s","c","h","a","r","g","i","n","g">>
S_bat == <<"b","a","t">>

(***************************************************************************)
(* format_time                                                             *)
(***************************************************************************)
\* str(timedelta(seconds=secs)) for an int secs >= 0 (no microseconds)
timedelta_str(secs) ==
    LET days == secs \div 86400
        seconds == secs % 86400
        mm0 == seconds \div 60
        ss == seconds % 60
        hh == mm0 \div 60
        mm == mm0 % 60
        s == IntToStr(hh) \o <<":">> \o Pad2(mm) \o <<":">> \o Pad2(ss)
    IN  IF days # 0
        THEN IntToStr(days) \o <<" ","d","a","y">>
               \o (IF days # 1 THEN <<"s">> ELSE <<>>) \o <<","," ">> \o s
        ELSE s

\* the slip `secs <= 0`: zero seconds taken for an unknown time
secs_unknown_le(secs) == secs = None \/ secs[1] <= 0

\* `secs is None or secs < 0`
secs_unknown(secs) == secs = None \/ secs[1] < 0

\* `sub in s`
contains(s, sub) ==
    \E k \in 0..(Len(s) - Len(sub)) : \A i \in 1..Len(sub) : s[k + i] = sub[i]

\* the slip `"charg" in status.lower()`
status_charging_in(status) ==
    /\ status # None
    /\ status[1] # <<>>
    /\ contains(lower(status[1]), S_charg)

\* `status and status.lower().startswith("charg")`
status_charging(status) ==
    /\ status # None
    /\ status[1] # <<>>
    /\ startswith(lower(status[1]), S_charg)

format_time(secs, status) ==
    IF secs_unknown(secs)
    THEN IF status_charging(status) THEN S_ChargingDots ELSE S_Unknown
    ELSE SplitFirst(timedelta_str(secs[1]), ".")

(***************************************************************************)
(* The info dict                                                           *)
(***************************************************************************)
\* {}
EmptyDict == [percent |-> <<>>, status |-> <<>>, secs_left |-> <<>>]

\* truth value of an optional dict: None and {} are falsy
Truthy(r) == r # None /\ r[1] # EmptyDict

(***************************************************************************)
(* get_psutil_battery                                                      *)
(*                                                                         *)
(* The facility is [kind, percent_halves, power_plugged, secsleft]: kind   *)
(* is "ImportError" (psutil is not installed), "nobattery"                 *)
(* (sensors_battery() returns None) or "battery". b.percent is a float;    *)
(* it is given in halves of a percent so that round() has ties to break.   *)
(***************************************************************************)
\* round(x) for x = halves / 2: to nearest, ties to the even integer
round_half_even(halves) ==
    LET q == halves \div 2
    IN  IF halves % 2 = 0 THEN q
        ELSE IF q % 2 = 0 THEN q ELSE q + 1

\* `b.secsleft in (-1, None)`
secsleft_unknown(secsleft) == secsleft = None \/ secsleft[1] = -1

get_psutil_battery(ps) ==
    IF ps.kind = "ImportError" THEN None
    ELSE IF ps.kind = "nobattery" THEN None
    ELSE Some([percent |-> Some(round_half_even(ps.percent_halves)),
               status |-> Some(IF ps.power_plugged THEN S_Charging
                                                   ELSE S_Discharging),
               secs_left |-> Some(IF secsleft_unknown(ps.secsleft)
                                  THEN None ELSE ps.secsleft)])

(***************************************************************************)
(* get_sys_battery                                                         *)
(*                                                                         *)
(* The power-supply tree is [exists, devices]: devices is the sequence of  *)
(* device directories in os.listdir order, a device being                  *)
(* [name, capacity, status] and an attribute file [kind, text] with kind   *)
(* "absent", "unreadable" (open() raises) or "text".                       *)
(***************************************************************************)
IsSpace(c) == c \in {" ", "\n", "\t"}

\* str.strip()
RECURSIVE lstrip(_)
lstrip(s) == IF s # <<>> /\ IsSpace(Head(s)) THEN lstrip(Tail(s)) ELSE s

RECURSIVE rstrip(_)
rstrip(s) ==
    IF s # <<>> /\ IsSpace(s[Len(s)]) THEN rstrip(SubSeq(s, 1, Len(s) - 1)) ELSE s

strip(s) == rstrip(lstrip(s))

IsDigit(c) == \E i \in 1..10 : Digits[i] = c
DigitVal(c) == (CHOOSE i \in 1..10 : Digits[i] = c) - 1

RECURSIVE DigitsToNat(_)
DigitsToNat(s) ==
    IF s = <<>> THEN 0
    ELSE 10 * DigitsToNat(SubSeq(s, 1, Len(s) - 1)) + DigitVal(s[Len(s)])

\* int(s) for a str s: None stands for ValueError
ParseInt(s) ==
    LET t == strip(s)
        signed == t # <<>> /\ t[1] \in {"+", "-"}
        body == IF signed THEN Tail(t) ELSE t
    IN  IF body = <<>> \/ \E i \in 1..Len(body) : ~IsDigit(body[i])
        THEN None
        ELSE Some(IF signed /\ t[1] = "-" THEN 0 - DigitsToNat(body)
                                           ELSE DigitsToNat(body))

\* readf(fname): [raised, value]; value is None when the file does not exist
readf(file) ==
    IF file.kind = "absent" THEN [raised |-> FALSE, value |-> None]
    ELSE IF file.kind = "unreadable" THEN [raised |-> TRUE, value |-> None]
    ELSE [raised |-> FALSE, value |-> Some(strip(file.text))]

\* `name.lower().startswith("bat") or os.path.exists(.../capacity)`
is_candidate(dev) ==
    startswith(lower(dev.name), S_bat) \/ dev.capacity.kind # "absent"

\* the body of the try block for one device: [raised, value]
try_device(dev) ==
    LET cap == readf(dev.capacity)
        st == readf(dev.status)
        status == IF st.value = None \/ st.value[1] = <<>>
                  THEN S_Unknown ELSE st.value[1]
        n == IF cap.value = None THEN None ELSE ParseInt(cap.value[1])
    IN  IF cap.raised \/ st.raised \/ n = None
        THEN [raised |-> TRUE, value |-> EmptyDict]
        ELSE [raised |-> FALSE,
              value |-> [percent |-> n, status |-> Some(status),
                         secs_left |-> <<>>]]

\* the for loop over os.listdir(base)
RECURSIVE scan_devices(_)
scan_devices(devices) ==
    IF devices = <<>> THEN None
    ELSE IF is_candidate(Head(devices)) /\ ~try_device(Head(devices)).raised
         THEN Some(try_device(Head(devices)).value)
         ELSE scan_devices(Tail(devices))

get_sys_battery(fs) ==
    IF ~fs.exists THEN None ELSE scan_devices(fs.devices)

(***************************************************************************)
(* Rendering                                                               *)
(***************************************************************************)
color_for_percent(percent) ==
    IF percent < 20 THEN "red"
    ELSE IF percent < 60 THEN "yellow"
    ELSE "green"

\* "\n".join(lines)
RECURSIVE join_lines(_)
join_lines(lines) ==
    IF lines = <<>> THEN <<>>
    ELSE IF Len(lines) = 1 THEN lines[1]
    ELSE lines[1] \o <<"\n">> \o join_lines(Tail(lines))

\* str.splitlines(), the line boundary being "\n"
RECURSIVE splitlines(_)
splitlines(s) ==
    IF s = <<>> THEN <<>>
    ELSE IF \E i \in 1..Len(s) : s[i] = "\n"
         THEN LET k == CHOOSE i \in 1..Len(s) :
                          s[i] = "\n" /\ \A j \in 1..(i - 1) : s[j] # "\n"
              IN  <<SubSeq(s, 1, k - 1)>> \o splitlines(SubSeq(s, k + 1, Len(s)))
         ELSE <<s>>

\* max((len(line) for line in lines), default=0)
max_len(lines) ==
    IF lines = <<>> THEN 0
    ELSE CHOOSE m \in {Len(lines[i]) : i \in 1..Len(lines)} :
             \A i \in 1..Len(lines) : Len(lines[i]) <= m

\* os.get_terminal_size().columns, 80 when the query raises OSError
term_width(term) == IF term = None THEN 80 ELSE term[1]

\* max((term_width - max_len) // 2, 0)
left_pad(tw, ml) == IF (tw - ml) \div 2 > 0 THEN (tw - ml) \div 2 ELSE 0

center_text_block(block, term) ==
    LET lines == splitlines(block)
        pad == left_pad(term_width(term), max_len(lines))
    IN  join_lines([i \in 1..Len(lines) |-> Rep(" ", pad) \o lines[i]])

\* str.center(width) with the space fill character
center(s, width) ==
    IF Len(s) >= width THEN s
    ELSE LET marg == width - Len(s)
             left == marg \div 2 + (IF marg % 2 = 1 /\ width % 2 = 1 THEN 1 ELSE 0)
         IN  Rep(" ", left) \o s \o Rep(" ", marg - left)

width == 28
height == 9
full_block == "U+2588"

\* the slip (percent * width) // 100: the floor of the quotient
fill_cols_floor(percent) == (percent * width) \div 100

\* int((percent * width) / 100): the float quotient, truncated toward zero
fill_cols_of(percent) ==
    IF percent * width >= 0
    THEN (percent * width) \div 100
    ELSE 0 - ((0 - percent * width) \div 100)

\* one interior row: f"|{fill}|" with the vertical border character
interior_row(fill_cols) ==
    <<"U+2502">> \o Rep(full_block, fill_cols) \o Rep(" ", width - fill_cols)
                 \o <<"U+2502">>

\* the list `lines` before the percentage is inserted
gauge_lines(fill_cols) ==
    LET cap == Rep(" ", (width - (width - width \div 3)) \div 2)
                 \o Rep("_", width - width \div 3)
    IN  <<center(cap, width + 2),
          <<"U+256D">> \o Rep("U+2500", width) \o <<"U+256E">>>>
        \o [i \in 1..height |-> interior_row(fill_cols)]
        \o <<<<"U+2570">> \o Rep("U+2500", width) \o <<"U+256F">>>>

\* f"{percent}%"
perc_text_of(percent) == IntToStr(percent) \o <<"%">>

\* the slip 1 + height // 2: the row above the middle one
mid_above == 1 + height \div 2

\* index of the row that receives the percentage (0-based, as in the source)
mid_of == 2 + height \div 2

\* first column of the percentage in that row (0-based)
start_of(perc_text) == 1 + (width - Len(perc_text)) \div 2

\* the 0-based index i of a list of length n, as list item assignment reads
\* it: a negative index counts from the end; -1 stands for IndexError
list_index(i, n) ==
    IF 0 <= i /\ i < n THEN i
    ELSE IF i < 0 /\ i + n >= 0 THEN i + n
    ELSE -1

\* the loop `row[start + i] = ch`: the row after the assignments, in order
RECURSIVE overlay(_, _, _)
overlay(row, start, text) ==
    IF text = <<>> THEN row
    ELSE overlay([row EXCEPT ![list_index(start, Len(row)) + 1] = Head(text)],
                 start + 1, Tail(text))

overlay_raises(row, start, text) ==
    \E i \in 0..(Len(text) - 1) : list_index(start + i, Len(row)) = -1

\* str(x) of an optional str, as an f-string prints it
fmt_str(status) ==
    IF status = None THEN <<"N","o","n","e">> ELSE status[1]

info_lines(percent, status, secs_left) ==
    << <<"S","t","a","t","u","s"," ",":"," ">> \o fmt_str(status),
       <<"C","h","a","r","g","e"," ",":"," ">> \o perc_text_of(percent),
       <<"T","i","m","e"," "," "," ",":"," ">> \o format_time(secs_left, status) >>

\* render_battery: percent and status are optional (a None percent raises
\* TypeError at percent * width); term is the terminal's width, None when the
\* query raises OSError
render_battery(percent, status, secs_left, term) ==
    IF percent = None
    THEN [fn |-> "render_battery", raised |-> "TypeError",
          percent |-> percent, status |-> status, secs_left |-> secs_left]
    ELSE
    LET fill_cols == fill_cols_of(percent[1])
        lines0 == gauge_lines(fill_cols)
        perc_text == perc_text_of(percent[1])
        mid == mid_of
        row == lines0[mid + 1]
        start == start_of(perc_text)
        lines == [lines0 EXCEPT ![mid + 1] = overlay(row, start, perc_text)]
        inf == info_lines(percent[1], status, secs_left)
        pad == <<" ", " ", " ">>
        combined == [i \in 1..Len(lines) |->
                        IF i - 1 < Len(inf) THEN lines[i] \o pad \o inf[i]
                        ELSE lines[i]]
        block == join_lines(combined)
    IN  IF overlay_raises(row, start, perc_text)
        THEN [fn |-> "render_battery", raised |-> "IndexError",
              percent |-> percent, status |-> status, secs_left |-> secs_left]
        ELSE [fn |-> "render_battery", raised |-> "no",
              percent |-> percent, status |-> status, secs_left |-> secs_left,
              term |-> term, fill_cols |-> fill_cols, lines |-> lines,
              printed |-> center_text_block(block, term),
              color |-> color_for_percent(percent[1])]

(***************************************************************************)
(* show                                                                    *)
(***************************************************************************)
\* the slip of evaluating both sources before choosing
or_eager(a) == TRUE

\* `a or b` evaluates b only when a is falsy
or_needs_rhs(a) == ~Truthy(a)

\* the value of `p or s or {}`
or_chain(p, s) ==
    IF Truthy(p) THEN p[1] ELSE IF Truthy(s) THEN s[1] ELSE EmptyDict

\* the slip info.setdefault(key, arg): the base value wins
override_setdefault(entry, arg) == IF entry # <<>> THEN entry ELSE arg

\* `if arg is not None: info[key] = arg`
override(entry, arg) == IF arg # None THEN arg ELSE entry

\* an optional int as the value stored under "secs_left"
opt_arg(a) == IF a = None THEN None ELSE Some(a)

\* the slip info.get("percent"): no default
default_missing == None

default_percent == Some(50)
default_status == Some(S_Unknown)

\* info.get(key, default) for "percent" and "status"
get(entry, default) == IF entry = <<>> THEN default ELSE entry

\* info.get("secs_left", None)
get_secs(entry) == IF entry = <<>> THEN None ELSE entry[1]

merge(b, a) ==
    [percent |-> override(b.percent, a.level),
     status |-> override(b.status, a.status),
     secs_left |-> override(b.secs_left, opt_arg(a.secsleft))]

(***************************************************************************)
(* Inputs                                                                  *)
(***************************************************************************)
S_CHARGING == <<"C","H","A","R","G","I","N","G">>
S_charging == <<"c","h","a","r","g","i","n","g">>
S_Charged == <<"C","h","a","r","g","e","d">>
S_Char == <<"C","h","a","r">>
S_NotCharging == <<"N","o","t"," ","c","h","a","r","g","i","n","g">>
S_Full == <<"F","u","l","l">>

StatusTexts ==
    {S_Charging, S_CHARGING, S_charging, S_charg, S_Charged, S_Char,
     S_Discharging, S_NotCharging, S_Full, S_Unknown, <<>>}

SecsValues ==
    {h * 3600 + m * 60 + s : h \in 0..MaxHours, m \in {0, 1, 59}, s \in {0, 1, 59}}

FormatSecs ==
    {None} \cup {Some(0 - n) : n \in 1..MaxNegSecs} \cup {Some(x) : x \in SecsValues}

FormatStatuses == {None} \cup {Some(t) : t \in StatusTexts}

RenderPercents == (0 - PercentSlack)..(100 + PercentSlack)
RenderStatuses == {S_Charging, S_Discharging, <<>>}
RenderSecs == {None, Some(-1), Some(120), Some(90061)}
TermWidths == {None, Some(40), Some(100)}

PsutilStates ==
    {[kind |-> k, percent_halves |-> 0, power_plugged |-> FALSE, secsleft |-> None] :
        k \in {"ImportError", "nobattery"}}
    \cup [kind : {"battery"}, percent_halves : {80, 81, 83},
          power_plugged : BOOLEAN,
          secsleft : {None, Some(-1), Some(-2), Some(3600)}]

CapacityFiles ==
    {[kind |-> "absent", text |-> <<>>], [kind |-> "unreadable", text |-> <<>>],
     [kind |-> "text", text |-> <<"5","0","\n">>],
     [kind |-> "text", text |-> <<"n","/","a","\n">>]}
StatusFiles ==
    {[kind |-> "absent", text |-> <<>>], [kind |-> "unreadable", text |-> <<>>],
     [kind |-> "text", text |-> <<"C","h","a","r","g","i","n","g","\n">>],
     [kind |-> "text", text |-> <<"\n">>]}
DeviceNames == {<<"B","A","T","0">>, <<"A","C">>}
Devices == [name : DeviceNames, capacity : CapacityFiles, status : StatusFiles]

RECURSIVE DeviceLists(_)
DeviceLists(n) ==
    IF n = 0 THEN {<<>>}
    ELSE DeviceLists(n - 1)
         \cup {<<d>> \o l : d \in Devices,
                            l \in {x \in DeviceLists(n - 1) : Len(x) = n - 1}}

Trees ==
    {[exists |-> FALSE, devices |-> <<>>]}
    \cup {[exists |-> TRUE, devices |-> l] : l \in DeviceLists(MaxDevices)}

ShowLevels == {None, Some(0), Some(75)}
ShowStatuses == {None, Some(<<>>), Some(S_Discharging)}
ShowSecs == {None, Some(-5), Some(120)}

(***************************************************************************)
(* The state machine                                                       *)
(***************************************************************************)
NoArgs == [level |-> None, status |-> None, secsleft |-> None]
NoCall == [fn |-> "none"]

Init ==
    /\ pc = "idle"
    /\ args = NoArgs
    /\ base = EmptyDict
    /\ info = EmptyDict
    /\ psCalls = 0
    /\ sysCalls = 0
    /\ psRet = None
    /\ ret = NoCall

frame == <<args, base, info, psCalls, sysCalls, psRet>>

\* a direct call of format_time
CallFormatTime ==
    /\ pc = "idle"
    /\ \E secs \in FormatSecs, status \in FormatStatuses :
          ret' = [fn |-> "format_time", secs |-> secs, status |-> status,
                  result |-> format_time(secs, status)]
    /\ pc' = "returned"
    /\ UNCHANGED frame

\* a direct call of color_for_percent
CallColorForPercent ==
    /\ pc = "idle"
    /\ \E percent \in RenderPercents :
          ret' = [fn |-> "color_for_percent", percent |-> percent,
                  result |-> color_for_percent(percent)]
    /\ pc' = "returned"
    /\ UNCHANGED frame

\* a direct call of get_psutil_battery
CallGetPsutilBattery ==
    /\ pc = "idle"
    /\ \E ps \in PsutilStates :
          ret' = [fn |-> "get_psutil_battery", ps |-> ps,
                  result |-> get_psutil_battery(ps)]
    /\ pc' = "returned"
    /\ UNCHANGED frame

\* a direct call of get_sys_battery
CallGetSysBattery ==
    /\ pc = "idle"
    /\ \E fs \in Trees :
          ret' = [fn |-> "get_sys_battery", fs |-> fs,
                  result |-> get_sys_battery(fs)]
    /\ pc' = "returned"
    /\ UNCHANGED frame

\* a direct call of render_battery
CallRenderBattery ==
    /\ pc = "idle"
    /\ \E percent \in RenderPercents, status \in RenderStatuses,
          secs \in RenderSecs, term \in TermWidths :
          ret' = render_battery(Some(percent), Some(status), secs, term)
    /\ pc' = "returned"
    /\ UNCHANGED frame

\* the caller has taken the result of a direct call
Return ==
    /\ pc = "returned"
    /\ pc' = "idle"
    /\ ret' = NoCall
    /\ UNCHANGED frame

\* show is invoked with its three options
ShowStart ==
    /\ pc = "idle"
    /\ \E level \in ShowLevels, status \in ShowStatuses, secsleft \in ShowSecs :
          args' = [level |-> level, status |-> status, secsleft |-> secsleft]
    /\ pc' = "psutil"
    /\ ret' = NoCall
    /\ UNCHANGED <<base, info, psCalls, sysCalls, psRet>>

\* show, line 138: the first operand of the `or` chain
ShowPsutil ==
    /\ pc = "psutil"
    /\ \E ps \in PsutilStates :
          LET r == get_psutil_battery(ps)
          IN  /\ psRet' = r
              /\ IF or_needs_rhs(r)
                 THEN pc' = "sys" /\ base' = base
                 ELSE pc' = "merge" /\ base' = or_chain(r, None)
    /\ psCalls' = psCalls + 1
    /\ UNCHANGED <<args, info, sysCalls, ret>>

\* show, line 138: the second operand of the `or` chain, and `or {}`
ShowSys ==
    /\ pc = "sys"
    /\ \E fs \in Trees :
          base' = or_chain(psRet, get_sys_battery(fs))
    /\ sysCalls' = sysCalls + 1
    /\ pc' = "merge"
    /\ UNCHANGED <<args, info, psCalls, psRet, ret>>

\* show, lines 141-152: overrides, defaults and the call of render_battery
ShowMerge ==
    /\ pc = "merge"
    /\ info' = merge(base, args)
    /\ \E term \in TermWidths :
          ret' = render_battery(get(info'.percent, default_percent),
                                get(info'.status, default_status),
                                get_secs(info'.secs_left), term)
    /\ pc' = "done"
    /\ UNCHANGED <<args, base, psCalls, sysCalls, psRet>>

\* the process ends; the next invocation starts afresh
ShowExit ==
    /\ pc = "done"
    /\ pc' = "idle"
    /\ args' = NoArgs
    /\ base' = EmptyDict
    /\ info' = EmptyDict
    /\ psCalls' = 0
    /\ sysCalls' = 0
    /\ psRet' = None
    /\ ret' = NoCall

Next ==
    \/ CallFormatTime
    \/ CallColorForPercent
    \/ CallGetPsutilBattery
    \/ CallGetSysBattery
    \/ CallRenderBattery
    \/ Return
    \/ ShowStart
    \/ ShowPsutil
    \/ ShowSys
    \/ ShowMerge
    \/ ShowExit

Spec == Init /\ [][Next]_vars

(***************************************************************************)
(* Properties                                                              *)
(***************************************************************************)
\* the status text indicates charging: its lower-cased form starts with "charg"
IndicatesCharging(status) ==
    status # None /\ startswith(lower(status[1]), S_charg)

IsFormatCall == ret.fn = "format_time"
IsRender == ret.fn = "render_battery" /\ ret.raised = "no"

\* C1 as stated: whenever the status indicates charging, format_time returns
\* "Charging..." whatever secs is (absent, negative, zero or positive).
C1_ChargingRegardlessOfSecs ==
    (IsFormatCall /\ IndicatesCharging(ret.status)) => ret.result = S_ChargingDots

\* C1 amended: when the status indicates charging, format_time returns
\* "Charging..." exactly when secs is absent or negative; for secs zero or
\* positive it returns the formatted time instead.
C1_ChargingOnlyWhenSecsUnknown ==
    (IsFormatCall /\ IndicatesCharging(ret.status)) =>
        (ret.result = S_ChargingDots <=> (ret.secs = None \/ ret.secs[1] < 0))

C1_Witness ==
    /\ IsFormatCall
    /\ ret.status = Some(S_CHARGING)
    /\ ret.secs = Some(-1)
    /\ ret.result = S_ChargingDots

\* C2: for every secs >= 0, 86400 and above included, format_time returns
\* H:MM:SS with H = secs div 3600 in decimal, unbounded and without any other
\* prefix, MM = (secs div 60) mod 60 and SS = secs mod 60 on two digits each,
\* whatever the status.
C2_HoursUnbounded ==
    (IsFormatCall /\ ret.secs # None /\ ret.secs[1] >= 0) =>
        ret.result = IntToStr(ret.secs[1] \div 3600) \o <<":">>
                       \o Pad2((ret.secs[1] \div 60) % 60) \o <<":">>
                       \o Pad2(ret.secs[1] % 60)

\* C3: with secs absent or negative, format_time returns "Charging..." exactly
\* when the status is present and its lower-cased form starts with "charg",
\* and "Unknown" for every other status (absent, empty, "Discharging", ...).
C3_UnknownSecs ==
    (IsFormatCall /\ (ret.secs = None \/ ret.secs[1] < 0)) =>
        ret.result = (IF IndicatesCharging(ret.status) THEN S_ChargingDots
                                                       ELSE S_Unknown)

C3_Witness ==
    /\ IsFormatCall
    /\ ret.secs = None
    /\ ret.status = Some(S_Discharging)
    /\ ret.result = S_Unknown

\* C4: show tries get_psutil_battery, then get_sys_battery, then the empty
\* reading: get_sys_battery is called only after get_psutil_battery returned
\* absent, and when get_psutil_battery returns a reading get_sys_battery is
\* never called and the base reading is that reading.
C4_SourceOrder ==
    /\ psCalls <= 1 /\ sysCalls <= 1
    /\ sysCalls > 0 => (psCalls = 1 /\ psRet = None)
    /\ (psCalls = 1 /\ psRet # None) =>
          /\ sysCalls = 0
          /\ pc \in {"merge", "done"}
          /\ base = psRet[1]
    /\ (pc \in {"merge", "done"} /\ psRet = None) => sysCalls = 1
    /\ pc \in {"sys", "merge", "done"} => psCalls = 1

C4_Witness ==
    /\ pc = "done"
    /\ psRet # None
    /\ sysCalls = 0
    /\ base = psRet[1]

\* what show must pass for a field: the supplied value, else the base value,
\* else the default
Merged(supplied, baseEntry, default) ==
    IF supplied # None THEN supplied
    ELSE IF baseEntry # <<>> THEN baseEntry ELSE default

\* C5: for each of percent, status and secs_left independently, a supplied
\* option (level 0, an empty status and negative seconds included) replaces
\* the base field, and a field whose option is not supplied keeps its base
\* value, or its default when the base has none.
C5_OverrideMerge ==
    pc = "done" =>
        /\ ret.percent = Merged(args.level, base.percent, Some(50))
        /\ ret.status = Merged(args.status, base.status, Some(S_Unknown))
        /\ ret.secs_left = (IF args.secsleft # None THEN args.secsleft
                            ELSE IF base.secs_left # <<>> THEN base.secs_left[1]
                            ELSE None)

C5_Witness ==
    /\ pc = "done"
    /\ args = [level |-> Some(75), status |-> None, secsleft |-> None]
    /\ base.percent = Some(40)
    /\ ret.percent = Some(75)
    /\ ret.status = base.status
    /\ ret.secs_left = Some(3600)

\* C6: whatever the sources return and whatever options are supplied, show
\* reaches render_battery with percent and status defined, and with both
\* sources absent and no option it passes 50, "Unknown" and no seconds.
C6_FullyPopulated ==
    pc = "done" =>
        /\ ret.fn = "render_battery"
        /\ ret.raised = "no"
        /\ ret.percent # None
        /\ ret.status # None
        /\ (base = EmptyDict /\ args = NoArgs) =>
              /\ ret.percent = Some(50)
              /\ ret.status = Some(S_Unknown)
              /\ ret.secs_left = None

C6_Witness ==
    /\ pc = "done"
    /\ psRet = None
    /\ sysCalls = 1
    /\ base = EmptyDict
    /\ args = NoArgs
    /\ ret.fn = "render_battery"
    /\ ret.percent = Some(50)

\* number of full blocks in a row
CountFull(row) == Cardinality({i \in 1..Len(row) : row[i] = "U+2588"})

\* the interior rows of `lines` (1-based) and the one in the vertical center
InteriorRows == 3..11
CenterRow == 3 + 9 \div 2

\* a row filled with f full blocks and padded with spaces to 28 cells,
\* between the vertical borders
FilledRow(f) ==
    <<"U+2502">> \o [i \in 1..28 |-> IF i <= f THEN "U+2588" ELSE " "]
                 \o <<"U+2502">>

\* C7 as stated: for percent in 0..100 every one of the 9 interior rows, the
\* vertical-center row included, holds floor(percent*28/100) full blocks.
C7_EveryRowHoldsFillCount ==
    (IsRender /\ ret.percent[1] \in 0..100) =>
        \A r \in InteriorRows :
            CountFull(ret.lines[r]) = (ret.percent[1] * 28) \div 100

\* C7 amended: for percent in 0..100 each of the 8 interior rows other than
\* the vertical-center row is floor(percent*28/100) full blocks followed by
\* spaces to 28 cells; the center row is that row with the percentage text
\* written over it, so it holds the fill count less the fill cells the text
\* covers.
C7_RowsButForTheOverlay ==
    (IsRender /\ ret.percent[1] \in 0..100) =>
        LET f == (ret.percent[1] * 28) \div 100
            text == IntToStr(ret.percent[1]) \o <<"%">>
            first == 2 + (28 - Len(text)) \div 2
            covered == first..(first + Len(text) - 1)
        IN  \A r \in InteriorRows :
                /\ Len(ret.lines[r]) = 30
                /\ \A c \in 1..30 :
                      ret.lines[r][c] =
                          (IF r = CenterRow /\ c \in covered
                           THEN text[c - first + 1]
                           ELSE FilledRow(f)[c])

C7_Witness ==
    /\ IsRender
    /\ ret.percent = Some(50)
    /\ CountFull(ret.lines[CenterRow]) = 12
    /\ \A r \in InteriorRows \ {CenterRow} : CountFull(ret.lines[r]) = 14

\* C8 as stated: the filled-column count is floor(percent*28/100) for every
\* integer percent, negative ones (floor toward minus infinity) and those
\* above 100 included.
C8_FillIsFloor ==
    IsRender => ret.fill_cols = (ret.percent[1] * 28) \div 100

\* C8 amended: the filled-column count is percent*28/100 truncated toward
\* zero, with no clamping: floor(percent*28/100) for percent >= 0, above 100
\* included, and -floor(-percent*28/100) for negative percent.
C8_FillIsTruncation ==
    IsRender =>
        LET p == ret.percent[1]
            f == IF p >= 0 THEN (p * 28) \div 100 ELSE 0 - ((0 - p) * 28) \div 100
        IN  /\ ret.fill_cols = f
            /\ \A r \in InteriorRows \ {CenterRow} :
                  /\ CountFull(ret.lines[r]) = (IF f > 0 THEN f ELSE 0)
                  /\ Len(ret.lines[r]) = 2 + (IF f > 0 THEN f ELSE 0)
                                           + (IF 28 - f > 0 THEN 28 - f ELSE 0)

C8_Witness ==
    /\ IsRender
    /\ ret.percent = Some(-1)
    /\ ret.fill_cols = 0

\* a candidate device with a usable integer capacity
Usable(dev) ==
    /\ startswith(lower(dev.name), S_bat) \/ dev.capacity.kind # "absent"
    /\ dev.capacity.kind = "text"
    /\ ParseInt(dev.capacity.text) # None

\* the status text the claim expects of a device
ExpectedStatus(dev) ==
    IF dev.status.kind = "text" /\ strip(dev.status.text) # <<>>
    THEN strip(dev.status.text) ELSE S_Unknown

\* C9: when the tree exists, get_sys_battery returns absent only if no
\* candidate device has a usable integer capacity; otherwise it returns the
\* first such device in enumeration order with percent = its capacity,
\* secs_left absent and status = the status file's text, or "Unknown" when
\* the status file is absent or unreadable.
C9_FirstUsableDevice ==
    (ret.fn = "get_sys_battery" /\ ret.fs.exists) =>
        LET devs == ret.fs.devices
            usable == {i \in 1..Len(devs) : Usable(devs[i])}
        IN  IF usable = {} THEN ret.result = None
            ELSE LET k == CHOOSE i \in usable : \A j \in usable : i <= j
                 IN  ret.result =
                        Some([percent |-> ParseInt(devs[k].capacity.text),
                              status |-> Some(ExpectedStatus(devs[k])),
                              secs_left |-> <<>>])

\* C10: a reading of get_psutil_battery has secs_left absent whenever the
\* facility reports no value, POWER_TIME_UNKNOWN (-1) or POWER_TIME_UNLIMITED
\* (-2), and the reported seconds otherwise.
C10_NoSentinelInSecsLeft ==
    (ret.fn = "get_psutil_battery" /\ ret.ps.kind = "battery") =>
        /\ ret.result # None
        /\ ret.result[1].secs_left =
              Some(IF ret.ps.secsleft \in {None, Some(-1), Some(-2)}
                   THEN None ELSE ret.ps.secsleft)

====
